---- MODULE Spec2Model ----
(***************************************************************************)
(* WOTS+ one-time signatures (ChainSafe/W-OTS): parameters, the chain      *)
(* ladder engine, keys and the verification dispatchers.                   *)
(*                                                                         *)
(* Byte strings are sequences over 0..255; a Rust slice s[a..b] is         *)
(* Slice(s, a, b).  A Result is a record [err, val]: err = "Ok" for Ok(val)*)
(* and the name of the WotsError variant otherwise; err = "Panic" stands   *)
(* for an abort (index out of range, slice length mismatch).               *)
(*                                                                         *)
(* The digest primitives (BLAKE2b-256, SHA3-224, SHA3-256) are external    *)
(* crates.  They are modelled as three distinct deterministic streaming    *)
(* digests with the real output sizes: write absorbs bytes, in order, into *)
(* an accumulator (acc * 251 + byte + 1 modulo a prime, per byte), so that *)
(* write(a); write(b) equals write(a ++ b) as for a real streaming digest; *)
(* sum squeezes size() bytes out of the accumulator.                       *)
(***************************************************************************)
EXTENDS Integers, Sequences, FiniteSets, Bags, TLC

\* ------------------------------------------------------------------ bounds
\* number of distinct (seed, p_seed) pairs a key is built from
NumSeeds == 1
\* number of messages offered to sign and verify
NumMsgs == 4
\* Spec builds keys for parameters with n * total up to this many bytes
\* (SpecPresets builds the keys of the five presets)
MaxKeyBytes == 8
\* checksum is applied to byte strings of every length in 1..MaxShortHashed,
\* besides the digest lengths and the longest ones
MaxShortHashed == 3

\* ------------------------------------------------------- program constants
W == 256
SEED_SIZE == 32
MAX_MSG_SIZE == 254
PK_SIZE == 32

\* ------------------------------------------------------------ byte helpers
Byte == 0..255

Slice(s, from, to) == SubSeq(s, from + 1, to)

\* a byte string given by a function over 1..len, as a sequence (TLC then holds
\* its elements instead of the rule that computes them)
Bytes(f) == f \o <<>>

Zeros(len) == Bytes([k \in 1..len |-> 0])

Repeat(b, len) == Bytes([k \in 1..len |-> b])

\* the first len bytes of buf: &buf[0..len]
Take(buf, len) == Bytes([k \in 1..len |-> buf[k]])

RECURSIVE XorBits(_, _, _)
XorBits(a, b, bits) ==
    IF bits = 0 THEN 0
    ELSE ((a + b) % 2) + 2 * XorBits(a \div 2, b \div 2, bits - 1)

\* x1 ^ x2 on 4 bits, tabulated once: XorNibble[a + 1][b + 1]
XorNibble == Bytes([a \in 1..16 |-> Bytes([b \in 1..16 |-> XorBits(a - 1, b - 1, 4)])])

\* x1 ^ x2 on u8, tabulated once: XorTable[a + 1][b + 1]
XorTable ==
    Bytes([a \in 1..256 |-> Bytes([b \in 1..256 |->
        16 * XorNibble[((a - 1) \div 16) + 1][((b - 1) \div 16) + 1]
        + XorNibble[((a - 1) % 16) + 1][((b - 1) % 16) + 1]])])

Xor(a, b) == XorTable[a + 1][b + 1]

\* ----------------------------------------------------------------- hashers
Hashers == {"Blake2bHasher", "Sha3_224Hasher", "Sha3_256Hasher"}

HasherSize(H) ==
    CASE H = "Blake2bHasher" -> 32
      [] H = "Sha3_224Hasher" -> 28
      [] H = "Sha3_256Hasher" -> 32

\* the accumulator modulus and the per-digest initial values of the model digest
DigestModulus == 46337

DigestIV(H) ==
    CASE H = "Blake2bHasher" -> 7
      [] H = "Sha3_224Hasher" -> 224
      [] H = "Sha3_256Hasher" -> 256

\* absorbing one byte
Mix(acc, b) == (acc * 251 + b + 1) % DigestModulus

HasherNew(H) == [kind |-> H, acc |-> DigestIV(H)]

\* 251^k modulo DigestModulus
RECURSIVE MixPower(_)
MixPower(k) ==
    IF k = 0 THEN 1
    ELSE LET Square(half) == (half * half) % DigestModulus
             Odd(sq) == IF k % 2 = 1 THEN (sq * 251) % DigestModulus ELSE sq
         IN  Odd(Square(MixPower(k \div 2)))

\* MixPower(k) for k in 0..255, tabulated once: MixPowerTable[k + 1]
MixPowerTable == Bytes([k \in 1..256 |-> MixPower(k - 1)])

RECURSIVE MixPow(_)
MixPow(k) ==
    IF k <= 255 THEN MixPowerTable[k + 1]
    ELSE (MixPowerTable[256] * MixPow(k - 255)) % DigestModulus

\* Mix folded over all of data from accumulator acc, in closed form:
\* acc * 251^len + the sum over k of (data[k] + 1) * 251^(len - k).  The sum is
\* the size of the bag that holds, for every position k, its term plus one
\* copies of k
Absorb(acc, data) ==
    LET len == Len(data)
        terms == IF len <= W
                 THEN [k \in 1..len |->
                          (((data[k] + 1) * MixPowerTable[len - k + 1])
                              % DigestModulus) + 1]
                 ELSE [k \in 1..len |->
                          (((data[k] + 1) * MixPow(len - k)) % DigestModulus) + 1]
    IN  (((acc * MixPow(len)) % DigestModulus)
         + ((BagCardinality(terms) - len) % DigestModulus)) % DigestModulus

HasherWrite(h, data) == [kind |-> h.kind, acc |-> Absorb(h.acc, data)]

\* sum fills a buffer of size() bytes
HasherSum(h) ==
    [k \in 1..HasherSize(h.kind) |->
        (((Mix(h.acc, k) * MixPowerTable[k + 8]) % DigestModulus) \div 3) % 256]

\* sha3::Sha3_256 used directly by the aggregator
Sha3_256_new == HasherNew("Sha3_256Hasher")

\* ------------------------------------------------------------------ results
Ok(v) == [err |-> "Ok", val |-> v]

Err(e) == [err |-> e, val |-> <<>>]

None == [some |-> FALSE, msg |-> <<>>]

Some(msg) == [some |-> TRUE, msg |-> msg]

\* ------------------------------------------------------------------- params
Encodings == {"Level0", "Level1", "Level2", "Level3", "Consensus", "Custom"}

\* impl From<u8> for ParamsEncoding
EncodingFromU8(item) ==
    CASE item = 0 -> "Level0"
      [] item = 1 -> "Level1"
      [] item = 2 -> "Level2"
      [] item = 3 -> "Level3"
      [] item = 4 -> "Consensus"
      [] OTHER -> "Custom"

\* EncodingToU8 with Custom mapped to the tag of Consensus
EncodingToU8Consensus(item) ==
    CASE item = "Level0" -> 0
      [] item = "Level1" -> 1
      [] item = "Level2" -> 2
      [] item = "Level3" -> 3
      [] item = "Consensus" -> 4
      [] item = "Custom" -> 4

\* impl From<&ParamsEncoding> for u8
EncodingToU8(item) ==
    CASE item = "Level0" -> 0
      [] item = "Level1" -> 1
      [] item = "Level2" -> 2
      [] item = "Level3" -> 3
      [] item = "Consensus" -> 4
      [] item = "Custom" -> 5

\* the (n, m) table of Params::new
PresetValues(encoding) ==
    CASE encoding = "Level0" -> <<20, 24>>
      [] encoding = "Level1" -> <<24, 24>>
      [] encoding = "Level2" -> <<28, 24>>
      [] encoding = "Level3" -> <<32, 24>>
      [] encoding = "Consensus" -> <<32, 32>>

\* BuildParams with the two validations in the other order
BuildParamsHasherFirst(n, m, encoding, PRFH, MSGH) ==
    IF HasherSize(PRFH) < n \/ HasherSize(MSGH) < m THEN Err("InvalidHasher")
    ELSE IF ~(m \in 1..MAX_MSG_SIZE) THEN Err("InvalidMValue")
    ELSE LET checksum_ladders == IF m = 1 THEN 1 ELSE 2
         IN  Ok([n |-> n, m |-> m, total |-> m + checksum_ladders,
                 encoding |-> encoding, prf_hash |-> PRFH, msg_hash |-> MSGH])

\* the validation and construction shared by both constructors
BuildParams(n, m, encoding, PRFH, MSGH) ==
    IF ~(m \in 1..MAX_MSG_SIZE) THEN Err("InvalidMValue")
    ELSE IF HasherSize(PRFH) < n \/ HasherSize(MSGH) < m THEN Err("InvalidHasher")
    ELSE LET checksum_ladders == IF m = 1 THEN 1 ELSE 2
         IN  Ok([n |-> n, m |-> m, total |-> m + checksum_ladders,
                 encoding |-> encoding, prf_hash |-> PRFH, msg_hash |-> MSGH])

ParamsNew(encoding, PRFH, MSGH) ==
    IF encoding = "Custom" THEN Err("CustomNotSupported")
    ELSE BuildParams(PresetValues(encoding)[1], PresetValues(encoding)[2],
                     encoding, PRFH, MSGH)

ParamsNewFromValues(n, m, PRFH, MSGH) == BuildParams(n, m, "Custom", PRFH, MSGH)

\* ChecksumSub adding the bytes
RECURSIVE ChecksumAdd(_, _, _, _)
ChecksumAdd(sum, msg, lo, hi) ==
    IF lo > hi THEN sum
    ELSE IF lo = hi THEN (sum + msg[lo]) % 65536
    ELSE LET mid == (lo + hi) \div 2
             Rest(left) == IF left \in 0..65535
                           THEN ChecksumAdd(left, msg, mid + 1, hi)
                           ELSE left
         IN  Rest(ChecksumAdd(sum, msg, lo, mid))

\* checksum: u16 arithmetic
\* `sum -= *n as u16` over msg[lo..hi], in u16
RECURSIVE ChecksumSub(_, _, _, _)
ChecksumSub(sum, msg, lo, hi) ==
    IF lo > hi THEN sum
    ELSE IF lo = hi THEN (sum - msg[lo]) % 65536
    ELSE LET mid == (lo + hi) \div 2
             Rest(left) == IF left \in 0..65535
                           THEN ChecksumSub(left, msg, mid + 1, hi)
                           ELSE left
         IN  Rest(ChecksumSub(sum, msg, lo, mid))

\* the values `sum` takes in the loop of checksum, as integers without a width:
\* element k is sum after `sum -= msg[lo + k - 1]`
RECURSIVE ChecksumSums(_, _, _, _)
ChecksumSums(sum, msg, lo, hi) ==
    IF lo > hi THEN <<>>
    ELSE IF lo = hi THEN <<sum - msg[lo]>>
    ELSE LET mid == (lo + hi) \div 2
             Rest(left) == left \o ChecksumSums(left[Len(left)], msg, mid + 1, hi)
         IN  Rest(ChecksumSums(sum, msg, lo, mid))

\* checksum without the one-byte case
checksum_two_bytes(msg) ==
    LET Split(sum) == <<(sum - (sum % 256)) \div 256, sum % 256>>
    IN  Split(ChecksumSub(((W - 1) * Len(msg)) % 65536, msg, 1, Len(msg)))

\* checksum with the two bytes in the other order
checksum_little_endian(msg) ==
    LET Split(sum) ==
            LET upper == (sum - (sum % 256)) \div 256
                lower == sum % 256
            IN  IF Len(msg) = 1 THEN <<sum % 256>> ELSE <<lower, upper>>
    IN  Split(ChecksumSub(((W - 1) * Len(msg)) % 65536, msg, 1, Len(msg)))

checksum(msg) ==
    LET Split(sum) ==
            LET upper == (sum - (sum % 256)) \div 256
                lower == sum % 256
            IN  IF Len(msg) = 1 THEN <<sum % 256>> ELSE <<upper, lower>>
    IN  Split(ChecksumSub(((W - 1) * Len(msg)) % 65536, msg, 1, Len(msg)))

msg_hash_and_compute_checksum(P, msg) ==
    LET WithChecksum(hashed_msg) == hashed_msg \o checksum(hashed_msg)
        Hashed(msg_buf) == WithChecksum(Take(msg_buf, P.m))
    IN  Hashed(HasherSum(HasherWrite(HasherNew(P.msg_hash), msg)))

\* random_elements[i] is element i + 1
compute_random_elements(H, n, p_seed) ==
    LET Elements(seeded) ==
            Bytes([i \in 1..(W - 1) |->
                     Take(HasherSum(HasherWrite(seeded, <<i % 256>>)), n)])
    IN  Elements(HasherWrite(HasherNew(H), p_seed))

\* v ^= v >> 4; v ^= v >> 2; v ^= v >> 1; v & 1
ParityBit(b) ==
    LET Shift1(v) == Xor(v, v \div 2) % 2
        Shift2(v) == Shift1(Xor(v, v \div 4))
    IN  Shift2(Xor(b, b \div 16))

RECURSIVE ParityCount(_, _, _)
ParityCount(value, lo, hi) ==
    IF lo > hi THEN 0
    ELSE IF lo = hi THEN ParityBit(value[lo])
    ELSE ParityCount(value, lo, (lo + hi) \div 2)
         + ParityCount(value, ((lo + hi) \div 2) + 1, hi)

\* parity counting the bytes whose lowest bit is set
parity_low_bits(value) ==
    BagCardinality([k \in 1..Len(value) |-> (value[k] % 2) + 1]) % 2
        # Len(value) % 2

parity(value) == ParityCount(value, 1, Len(value)) % 2 = 1

\* ChainStep with the loop index as the tweak byte
ChainStepTweakJ(n, seeded, curr_value, random_elements, j) ==
    LET mask == random_elements[j + 1]
        preimage == Bytes([k \in 1..n |-> Xor(curr_value[k], mask[k])])
        hasher == HasherWrite(HasherWrite(seeded, <<j % 256>>), preimage)
    IN  Take(HasherSum(hasher), n)

\* one iteration of the loop of compute_chain: curr_value after step j.
\* seeded is the hasher after PRFH::new() and write(p_seed), the same at every
\* iteration
ChainStep(n, seeded, curr_value, random_elements, j) ==
    LET mask == random_elements[j + 1]
        preimage == Bytes([k \in 1..n |-> Xor(curr_value[k], mask[k])])
        hasher == HasherWrite(HasherWrite(seeded, <<(j + 1) % 256>>), preimage)
    IN  Take(HasherSum(hasher), n)

\* the loop of compute_chain over j in begin..end-1: the sequence of curr_value
\* after each iteration, i.e. element k is what the loop writes to
\* chains[begin + k][idx*n..(idx+1)*n] when given the chains
RECURSIVE ChainTrace(_, _, _, _, _, _)
ChainTrace(n, seeded, curr_value, random_elements, begin, end) ==
    IF begin >= end THEN <<>>
    ELSE IF begin + 1 = end
         THEN <<ChainStep(n, seeded, curr_value, random_elements, begin)>>
    ELSE LET mid == (begin + end) \div 2
             Rest(left) == left \o ChainTrace(n, seeded, left[Len(left)],
                                              random_elements, mid, end)
         IN  Rest(ChainTrace(n, seeded, curr_value, random_elements, begin, mid))

\* the result of compute_chain: the last curr_value, the input on an empty range
compute_chain_result(input, trace) ==
    IF Len(trace) = 0 THEN input ELSE trace[Len(trace)]

ComputeLaddersModes == {"Generate", "Sign", "Verify", "ComputePublicKey"}

\* Ladder with every chain walked from step 0 in the modes other than Sign
LadderFromZero(P, seeded, points, mode, start, random_elements, i) ==
    LET from == i * P.n
        to == (i + 1) * P.n
        begin == 0
        end == IF mode = "Sign" THEN start[i + 1] ELSE (W - 1) % 256
        Chain(value) ==
            LET Done(trace) == [begin |-> begin, end |-> end, trace |-> trace,
                                value |-> compute_chain_result(value, trace)]
            IN  Done(ChainTrace(P.n, seeded, value, random_elements, begin, end))
    IN  Chain(Slice(points, from, to))

\* the body of the `for i in 0..self.total` loop up to compute_chain:
\* begin, end and the values the chain passes through
Ladder(P, seeded, points, mode, start, random_elements, i) ==
    LET from == i * P.n
        to == (i + 1) * P.n
        begin == IF mode = "Sign" THEN 0 ELSE start[i + 1]
        end == IF mode = "Sign" THEN start[i + 1] ELSE (W - 1) % 256
        Chain(value) ==
            LET Done(trace) == [begin |-> begin, end |-> end, trace |-> trace,
                                value |-> compute_chain_result(value, trace)]
            IN  Done(ChainTrace(P.n, seeded, value, random_elements, begin, end))
    IN  Chain(Slice(points, from, to))

\* outputs[from..to].copy_from_slice(&value) for every i (ladder i is element
\* i + 1 of ladders)
LadderOutputs(P, ladders) ==
    Bytes([k \in 1..(P.n * P.total) |->
             ladders[((k - 1) \div P.n) + 1].value[((k - 1) % P.n) + 1]])

\* TweakInput fed in Generate mode only
RECURSIVE TweakInputGenerate(_, _, _, _)
TweakInputGenerate(ladders, mode, lo, hi) ==
    IF lo > hi THEN <<>>
    ELSE IF lo = hi
         THEN IF mode = "Generate" /\ parity(ladders[lo + 1].value)
              THEN ladders[lo + 1].value
              ELSE <<>>
    ELSE TweakInputGenerate(ladders, mode, lo, (lo + hi) \div 2)
         \o TweakInputGenerate(ladders, mode, ((lo + hi) \div 2) + 1, hi)

\* what the iterations lo..hi of the loop feed to t_hasher: the values of odd
\* parity, in chain order
RECURSIVE TweakInput(_, _, _, _)
TweakInput(ladders, mode, lo, hi) ==
    IF lo > hi THEN <<>>
    ELSE IF lo = hi
         THEN IF mode # "Sign" /\ parity(ladders[lo + 1].value)
              THEN ladders[lo + 1].value
              ELSE <<>>
    ELSE TweakInput(ladders, mode, lo, (lo + hi) \div 2)
         \o TweakInput(ladders, mode, ((lo + hi) \div 2) + 1, hi)

\* the chains table on return: W rows of n * total bytes (row r is element
\* r + 1), zero except, in Generate mode, row 0 (the points) and the rows
\* compute_chain wrote
LadderChains(P, points, mode, ladders) ==
    IF mode # "Generate" THEN [r \in 1..W |-> [k \in 1..(P.n * P.total) |-> 0]]
    ELSE Bytes([r \in 1..W |->
            Bytes([k \in 1..(P.n * P.total) |->
                LET lad == ladders[((k - 1) \div P.n) + 1]
                    row == r - 1
                IN  IF row > lad.begin /\ row <= lad.end
                    THEN lad.trace[row - lad.begin][((k - 1) % P.n) + 1]
                    ELSE IF row = 0 THEN points[k]
                    ELSE 0])])

\* the public-key aggregation at the end of compute_ladders
Aggregate(P, p_seed, ladders, mode, outputs) ==
    LET t_hasher == HasherWrite(Sha3_256_new,
                                TweakInput(ladders, mode, 0, P.total - 1))
        tweak == Bytes(HasherSum(t_hasher))
    IN  Bytes(HasherSum(HasherWrite(HasherWrite(HasherWrite(Sha3_256_new, p_seed),
                                                tweak), outputs)))

compute_ladders(P, p_seed, maybe_msg, points, mode) ==
    IF Len(p_seed) # SEED_SIZE THEN Err("InvalidSeedSize")
    ELSE IF Len(points) < P.n * P.total THEN Err("InvalidPointsSize")
    ELSE IF mode = "Sign" /\ ~maybe_msg.some THEN Err("MustProvideMessage")
    ELSE IF maybe_msg.some /\ mode # "Sign" /\ mode # "Verify"
         THEN Err("NoMessageExpected")
    ELSE IF ~maybe_msg.some /\ mode # "Generate" /\ mode # "ComputePublicKey"
         THEN Err("ExpectedMessage")
    ELSE IF mode = "Generate" /\ Len(points) # P.n * P.total
         THEN Err("Panic")  \* chains[0].copy_from_slice(points)
    ELSE LET Finish(ladders, outputs) ==
                 Ok([result |-> IF mode # "Sign"
                                THEN Aggregate(P, p_seed, ladders, mode, outputs)
                                ELSE outputs,
                     chains |-> LadderChains(P, points, mode, ladders)])
             Collect(ladders) == Finish(ladders, LadderOutputs(P, ladders))
             Loop(start, random_elements, seeded) ==
                 Collect(Bytes([i \in 1..P.total |->
                                  Ladder(P, seeded, points, mode, start,
                                         random_elements, i - 1)]))
         IN  Loop(IF maybe_msg.some
                  THEN msg_hash_and_compute_checksum(P, maybe_msg.msg)
                  ELSE Zeros(P.total),
                  compute_random_elements(P.prf_hash, P.n, p_seed),
                  HasherWrite(HasherNew(P.prf_hash), p_seed))

\* Params::decode
decode(P, msg, signature) ==
    IF Len(signature) # (P.total * P.n) + SEED_SIZE THEN Err("InvalidSignatureSize")
    ELSE LET Result(r) == IF r.err # "Ok" THEN r ELSE Ok(r.val.result)
         IN  Result(compute_ladders(P, Slice(signature, 0, SEED_SIZE), Some(msg),
                                    Slice(signature, SEED_SIZE, Len(signature)),
                                    "Verify"))

\* Params::verify
ParamsVerify(P, msg, signature, public_key) ==
    IF Len(public_key) # PK_SIZE THEN Err("InvalidPublicKeySize")
    ELSE LET Compare(pk) ==
                 IF pk.err # "Ok" THEN pk
                 ELSE IF public_key # pk.val THEN Err("InvalidSignature")
                 ELSE Ok(<<>>)
         IN  Compare(decode(P, msg, signature))

\* -------------------------------------------------------------------- keys
calculate_secret_key(P, seed) ==
    LET Concat(segments) ==
            Bytes([k \in 1..(P.n * P.total) |->
                     segments[((k - 1) \div P.n) + 1][((k - 1) % P.n) + 1]])
        Segments(seeded) ==
            Concat(Bytes([i \in 1..P.total |->
                     Take(HasherSum(HasherWrite(seeded, <<(i - 1) % 256>>)), P.n)]))
    IN  Segments(HasherWrite(HasherNew(P.prf_hash), seed))

calculate_public_key(P, p_seed, secret_key) ==
    LET Result(r) == IF r.err # "Ok" THEN r ELSE Ok(r.val.result)
    IN  Result(compute_ladders(P, p_seed, None, secret_key, "ComputePublicKey"))

NoChains == [some |-> FALSE, rows |-> <<>>]

\* Key::from_seed
from_seed(P, seed, p_seed) ==
    LET Build(sk, public_key) ==
            IF public_key.err # "Ok" THEN public_key
            ELSE Ok([built |-> TRUE,
                     seed |-> seed, p_seed |-> p_seed, chains |-> NoChains,
                     secret_key |-> sk, public_key |-> public_key.val,
                     params |-> P])
        WithSecretKey(sk) == Build(sk, calculate_public_key(P, p_seed, sk))
    IN  WithSecretKey(calculate_secret_key(P, seed))

\* build_signature with the seed ahead of the tag
build_signature_seed_first(K, sig) ==
    K.p_seed \o <<EncodingToU8(K.params.encoding)>> \o sig

\* Key::build_signature
build_signature(K, sig) ==
    <<EncodingToU8(K.params.encoding)>> \o K.p_seed \o sig

\* fast_sign reading the row after the one the step vector names
fast_sign_next_row(K, msg) ==
    IF ~K.chains.some THEN Err("ChainsNotSet")
    ELSE LET P == K.params
             Lookup(data) ==
                 Bytes([k \in 1..(P.n * P.total) |->
                          K.chains.rows[((data[((k - 1) \div P.n) + 1] + 1) % W) + 1][k]])
         IN  Ok(build_signature(K, Lookup(msg_hash_and_compute_checksum(P, msg))))

\* Key::fast_sign
fast_sign(K, msg) ==
    IF ~K.chains.some THEN Err("ChainsNotSet")
    ELSE LET P == K.params
             Lookup(data) ==
                 Bytes([k \in 1..(P.n * P.total) |->
                          K.chains.rows[data[((k - 1) \div P.n) + 1] + 1][k]])
         IN  Ok(build_signature(K, Lookup(msg_hash_and_compute_checksum(P, msg))))

\* sign without the message size check
sign_unchecked(K, msg) ==
    IF K.chains.some THEN fast_sign(K, msg)
    ELSE LET Result(r) ==
                 IF r.err # "Ok" THEN r ELSE Ok(build_signature(K, r.val.result))
         IN  Result(compute_ladders(K.params, K.p_seed, Some(msg), K.secret_key,
                                    "Sign"))

\* sign taking the fast path whether or not chains is set
sign_fast_only(K, msg) ==
    IF Len(msg) > MAX_MSG_SIZE THEN Err("InvalidMessageSize")
    ELSE fast_sign(K, msg)

\* Key::sign
sign(K, msg) ==
    IF Len(msg) > MAX_MSG_SIZE THEN Err("InvalidMessageSize")
    ELSE IF K.chains.some THEN fast_sign(K, msg)
    ELSE LET Result(r) ==
                 IF r.err # "Ok" THEN r ELSE Ok(build_signature(K, r.val.result))
         IN  Result(compute_ladders(K.params, K.p_seed, Some(msg), K.secret_key,
                                    "Sign"))

\* generate dropping the chains it finds
generate_dropping(K) ==
    IF K.chains.some THEN [res |-> Ok(<<>>), key |-> [K EXCEPT !.chains = NoChains]]
    ELSE LET Result(r) ==
                 IF r.err # "Ok" THEN [res |-> r, key |-> K]
                 ELSE [res |-> Ok(<<>>),
                       key |-> [K EXCEPT !.chains = [some |-> TRUE,
                                                     rows |-> r.val.chains]]]
         IN  Result(compute_ladders(K.params, K.p_seed, None, K.secret_key,
                                    "Generate"))

\* Key::generate: the result and the key afterwards
generate(K) ==
    IF K.chains.some THEN [res |-> Ok(<<>>), key |-> K]
    ELSE LET Result(r) ==
                 IF r.err # "Ok" THEN [res |-> r, key |-> K]
                 ELSE [res |-> Ok(<<>>),
                       key |-> [K EXCEPT !.chains = [some |-> TRUE,
                                                     rows |-> r.val.chains]]]
         IN  Result(compute_ladders(K.params, K.p_seed, None, K.secret_key,
                                    "Generate"))

\* ------------------------------------------------------------- dispatchers
\* level_N_params / consensus_params: Params::new(..).expect(..)
preset_params(encoding, PRFH, MSGH) == ParamsNew(encoding, PRFH, MSGH)

DispatchVerify(encoding, MSGH, msg, signature, public_key) ==
    LET p == preset_params(encoding, "Blake2bHasher", MSGH)
    IN  IF p.err # "Ok" THEN Err("Panic")
        ELSE ParamsVerify(p.val, msg, Slice(signature, 1, Len(signature)), public_key)

\* verify with SHA3-256 as the message hash of every preset
verify_one_hash(msg, signature, public_key) ==
    IF Len(signature) = 0 THEN Err("Panic")
    ELSE LET encoding == EncodingFromU8(signature[1])
         IN  IF encoding # "Custom"
             THEN DispatchVerify(encoding, "Sha3_256Hasher", msg, signature, public_key)
             ELSE Err("InvalidParamsEncodingType")

\* security::verify
verify(msg, signature, public_key) ==
    IF Len(signature) = 0 THEN Err("Panic")  \* signature[0]
    ELSE LET encoding == EncodingFromU8(signature[1])
         IN  IF encoding \in {"Level0", "Level1", "Level2", "Level3"}
             THEN DispatchVerify(encoding, "Sha3_224Hasher", msg, signature, public_key)
             ELSE IF encoding = "Consensus"
             THEN DispatchVerify(encoding, "Sha3_256Hasher", msg, signature, public_key)
             ELSE Err("InvalidParamsEncodingType")

\* verify_no_consensus accepting what verify accepts
verify_with_consensus(msg, signature, public_key) ==
    verify(msg, signature, public_key)

\* security::verify_no_consensus
verify_no_consensus(msg, signature, public_key) ==
    IF Len(signature) = 0 THEN Err("Panic")  \* signature[0]
    ELSE LET encoding == EncodingFromU8(signature[1])
         IN  IF encoding \in {"Level0", "Level1", "Level2", "Level3"}
             THEN DispatchVerify(encoding, "Sha3_224Hasher", msg, signature, public_key)
             ELSE Err("InvalidParamsEncodingType")

\* ===================================================================== state
VARIABLES
    params,  \* the last Params constructor call and its result
    key,     \* the Key, once built
    sig,     \* the signature the caller holds: the last one sign returned
    out      \* the call that has not yet returned: operation, inputs, result

vars == <<params, key, sig, out>>

NoParams == [op |-> "none", encoding |-> "", n |-> 0, m |-> 0,
             PRFH |-> "", MSGH |-> "", res |-> Err("none")]

NoKey == [built |-> FALSE]

NoSig == [held |-> FALSE, m |-> 0, fast |-> FALSE, bytes |-> <<>>]

Idle == [op |-> "idle", m |-> 0, tag |-> 0, pk |-> "", fast |-> FALSE,
         res |-> Err("none")]

Call(op, m, tag, pk, fast, res) ==
    [op |-> op, m |-> m, tag |-> tag, pk |-> pk, fast |-> fast, res |-> res]

\* ------------------------------------------------------------------- inputs
\* the hash pairs Params and Key are instantiated with: the two the dispatchers
\* use, and one whose PRF hash is 28 bytes wide
HasherPairs == {<<"Blake2bHasher", "Sha3_224Hasher">>,
                <<"Blake2bHasher", "Sha3_256Hasher">>,
                <<"Sha3_224Hasher", "Blake2bHasher">>}

NValues == {0, 2, 28, 29, 33}

MValues == {0, 1, 2, 29, 33, 254, 255}

\* seed and p_seed number k
SeedBytes(k) == Bytes([i \in 1..SEED_SIZE |-> (i * 37 + 11 * k) % 256])

PSeedBytes(k) == Bytes([i \in 1..SEED_SIZE |-> (i * 91 + 5 * k + 3) % 256])

\* TEST_DATA = b"XX NETWORK"
TEST_DATA == <<88, 88, 32, 78, 69, 84, 87, 79, 82, 75>>

\* message number k: the test data, a message of the maximum size, one byte
\* more than the maximum, the empty message, then one-byte messages
Msg(k) ==
    CASE k = 1 -> TEST_DATA
      [] k = 2 -> Repeat(99, MAX_MSG_SIZE)
      [] k = 3 -> Repeat(99, MAX_MSG_SIZE + 1)
      [] k = 4 -> <<>>
      [] OTHER -> <<k>>

\* the first bytes a signature is presented with, besides its own
Tags == {0, 4, 5, 6, 255}

\* the signature held, presented with first byte tag
WithTag(bytes, tag) == <<tag>> \o Slice(bytes, 1, Len(bytes))

OwnTag == sig.bytes[1]

\* the public keys a signature is checked against: the key's own, a different
\* 32-byte string, a 31-byte string
PublicKeys == {"own", "other", "short"}

PublicKeyArg(pk) ==
    CASE pk = "own" -> key.public_key
      [] pk = "other" -> Zeros(PK_SIZE)
      [] pk = "short" -> Zeros(PK_SIZE - 1)

\* ------------------------------------------------------------------ actions
Init ==
    /\ params = NoParams
    /\ key = NoKey
    /\ sig = NoSig
    /\ out = Idle

\* Params::<PRFH, MSGH>::new(encoding)
New(encoding, PRFH, MSGH) ==
    /\ ~key.built
    /\ params' = [op |-> "new", encoding |-> encoding, n |-> 0, m |-> 0,
                  PRFH |-> PRFH, MSGH |-> MSGH,
                  res |-> ParamsNew(encoding, PRFH, MSGH)]
    /\ UNCHANGED <<key, sig, out>>

\* Params::<PRFH, MSGH>::new_from_values(n, m)
NewFromValues(n, m, PRFH, MSGH) ==
    /\ ~key.built
    /\ params' = [op |-> "new_from_values", encoding |-> "", n |-> n, m |-> m,
                  PRFH |-> PRFH, MSGH |-> MSGH,
                  res |-> ParamsNewFromValues(n, m, PRFH, MSGH)]
    /\ UNCHANGED <<key, sig, out>>

\* Key::from_seed(params, seed, p_seed) with the Params last built
FromSeed(k) ==
    /\ ~key.built
    /\ params.res.err = "Ok"
    /\ LET Built(r) ==
               /\ key' = IF r.err = "Ok" THEN r.val ELSE key
               /\ out' = Call("from_seed", 0, 0, "", FALSE,
                              IF r.err = "Ok" THEN Ok(<<>>) ELSE r)
       IN  Built(from_seed(params.res.val, SeedBytes(k), PSeedBytes(k)))
    /\ UNCHANGED <<params, sig>>

\* key.generate()
Generate ==
    /\ key.built
    /\ out = Idle
    /\ LET Generated(g) ==
               /\ key' = g.key
               /\ out' = Call("generate", 0, 0, "", key.chains.some, g.res)
       IN  Generated(generate(key))
    /\ UNCHANGED <<params, sig>>

\* key.sign(Msg(m))
Sign(m) ==
    /\ key.built
    /\ out = Idle
    /\ out' = Call("sign", m, 0, "", key.chains.some, sign(key, Msg(m)))
    /\ UNCHANGED <<params, key, sig>>

\* the call returns: the caller keeps a signature, and drops any other result
Return ==
    /\ out # Idle
    /\ out' = Idle
    /\ sig' = IF out.op = "sign" /\ out.res.err = "Ok"
              THEN [held |-> TRUE, m |-> out.m, fast |-> out.fast,
                    bytes |-> out.res.val]
              ELSE sig
    /\ UNCHANGED <<params, key>>

\* params.verify(Msg(m), &signature[1..], public_key) with the key's Params
VerifyWithParams(m, pk) ==
    /\ key.built
    /\ sig.held
    /\ out = Idle
    /\ out' = Call("params_verify", m, OwnTag, pk, sig.fast,
                   ParamsVerify(key.params, Msg(m),
                                Slice(sig.bytes, 1, Len(sig.bytes)),
                                PublicKeyArg(pk)))
    /\ UNCHANGED <<params, key, sig>>

\* security::verify(Msg(m), signature, public_key)
Verify(m, tag, pk) ==
    /\ key.built
    /\ sig.held
    /\ out = Idle
    /\ out' = Call("verify", m, tag, pk, sig.fast,
                   verify(Msg(m), WithTag(sig.bytes, tag), PublicKeyArg(pk)))
    /\ UNCHANGED <<params, key, sig>>

\* security::verify_no_consensus(Msg(m), signature, public_key)
VerifyNoConsensus(m, tag, pk) ==
    /\ key.built
    /\ sig.held
    /\ out = Idle
    /\ out' = Call("verify_no_consensus", m, tag, pk, sig.fast,
                   verify_no_consensus(Msg(m), WithTag(sig.bytes, tag),
                                       PublicKeyArg(pk)))
    /\ UNCHANGED <<params, key, sig>>

\* ------------------------------------------------------------ specifications
\* keys of small custom parameters, every operation on them
SmallParams == params.res.err = "Ok" =>
                   params.res.val.n * params.res.val.total <= MaxKeyBytes

NewAny == \E e \in Encodings, h \in HasherPairs : New(e, h[1], h[2])

NewFromValuesAny ==
    \E n \in NValues, m \in MValues, h \in HasherPairs :
        NewFromValues(n, m, h[1], h[2])

FromSeedSmall == \E k \in 1..NumSeeds : SmallParams /\ FromSeed(k)

SignAny == \E m \in 1..NumMsgs : Sign(m)

VerifyWithParamsAny ==
    \E m \in 1..NumMsgs, pk \in PublicKeys : VerifyWithParams(m, pk)

VerifyAny ==
    /\ sig.held
    /\ \E m \in 1..NumMsgs, tag \in Tags \cup {OwnTag}, pk \in PublicKeys :
        Verify(m, tag, pk)

VerifyNoConsensusAny ==
    /\ sig.held
    /\ \E m \in 1..NumMsgs, tag \in Tags \cup {OwnTag}, pk \in PublicKeys :
        VerifyNoConsensus(m, tag, pk)

Next ==
    \/ NewAny
    \/ NewFromValuesAny
    \/ FromSeedSmall
    \/ Generate
    \/ SignAny
    \/ Return
    \/ VerifyWithParamsAny
    \/ VerifyAny
    \/ VerifyNoConsensusAny

Spec == Init /\ [][Next]_vars

\* the keys of the five presets with the hash functions the dispatchers use
\* and the key of one custom Params, one seed, the test data and an oversized
\* message
DispatcherMsgHash(encoding) ==
    IF encoding = "Consensus" THEN "Sha3_256Hasher" ELSE "Sha3_224Hasher"

PresetMsgs == {1, 3}

PresetPublicKeys == {"own", "short"}

NewPreset == \E e \in Encodings : New(e, "Blake2bHasher", DispatcherMsgHash(e))

NewCustom == NewFromValues(2, 2, "Blake2bHasher", "Sha3_256Hasher")

FromSeedPreset == FromSeed(1)

SignPreset == \E m \in PresetMsgs : Sign(m)

VerifyPreset ==
    /\ sig.held
    /\ \E m \in PresetMsgs, tag \in Tags \cup {OwnTag}, pk \in PresetPublicKeys :
        Verify(m, tag, pk)

VerifyNoConsensusPreset ==
    /\ sig.held
    /\ \E m \in PresetMsgs, tag \in Tags \cup {OwnTag}, pk \in PresetPublicKeys :
        VerifyNoConsensus(m, tag, pk)

NextPresets ==
    \/ NewPreset
    \/ NewCustom
    \/ FromSeedPreset
    \/ Generate
    \/ SignPreset
    \/ Return
    \/ VerifyPreset
    \/ VerifyNoConsensusPreset

SpecPresets == Init /\ [][NextPresets]_vars

\* checksum called directly, and the step vector kept
\* the byte strings handed to checksum: byte k (from 0) is slope * k + offset
HashedLens == (1..MaxShortHashed) \cup {24, 28, 32, MAX_MSG_SIZE - 1, MAX_MSG_SIZE}

HashedSlopes == {0, 1, 255}

HashedOffsets == {0, 1, 128, 255}

HashedBytes(len, slope, offset) ==
    Bytes([k \in 1..len |-> (slope * (k - 1) + offset) % 256])

Checked(hashed, res) == [op |-> "checksum", hashed |-> hashed, res |-> res]

\* checksum(&hashed)
Checksum(hashed) ==
    /\ out = Idle
    /\ out' = Checked(hashed, Ok(checksum(hashed)))
    /\ UNCHANGED <<params, key, sig>>

ChecksumAny ==
    \E len \in HashedLens, slope \in HashedSlopes, offset \in HashedOffsets :
        Checksum(HashedBytes(len, slope, offset))

\* hashed_msg.append(&mut checksum(&hashed_msg)): the caller keeps the step
\* vector of the string it had checksummed
AppendChecksum ==
    /\ out # Idle
    /\ out' = Idle
    /\ sig' = [held |-> TRUE, hashed |-> out.hashed,
               bytes |-> out.hashed \o out.res.val]
    /\ UNCHANGED <<params, key>>

NextChecksum ==
    \/ ChecksumAny
    \/ AppendChecksum

SpecChecksum == Init /\ [][NextChecksum]_vars

\* compute_ladders called directly on small custom parameters, in every mode,
\* with and without a message, with seeds and points of several lengths
\* maybe_msg number k: None, or Some of message k
MaybeMsgs == {0, 1, 2, 4}

MaybeMsg(k) == IF k = 0 THEN None ELSE Some(Msg(k))

\* the lengths of p_seed
PSeedLens == {SEED_SIZE - 1, SEED_SIZE, SEED_SIZE + 1}

PSeedOfLen(len) == Take(PSeedBytes(1) \o <<0>>, len)

\* the length of points, less n * total
PointsDeltas == {-1, 0, 1}

\* the secret key of seed 1, cut or extended to len bytes
PointsOfLen(P, len) == Take(calculate_secret_key(P, SeedBytes(1)) \o <<7>>, len)

Laddered(P, mode, m, p_seed, points, res) ==
    [op |-> "compute_ladders", params |-> P, mode |-> mode, m |-> m,
     p_seed |-> p_seed, points |-> points, res |-> res]

\* params.compute_ladders(p_seed, maybe_msg, points, mode) with the Params last
\* built
ComputeLadders(mode, m, p_seed, points) ==
    /\ out = Idle
    /\ out' = Laddered(params.res.val, mode, m, p_seed, points,
                       compute_ladders(params.res.val, p_seed, MaybeMsg(m), points,
                                       mode))
    /\ UNCHANGED <<params, key, sig>>

ComputeLaddersAny ==
    /\ params.res.err = "Ok"
    /\ SmallParams
    /\ \E mode \in ComputeLaddersModes, m \in MaybeMsgs, len \in PSeedLens,
          delta \in PointsDeltas :
           /\ params.res.val.n * params.res.val.total + delta >= 0
           /\ ComputeLadders(mode, m, PSeedOfLen(len),
                             PointsOfLen(params.res.val,
                                         params.res.val.n * params.res.val.total
                                             + delta))

\* a Params is built between calls
NewFromValuesIdle == out = Idle /\ NewFromValuesAny

NextLadders ==
    \/ NewFromValuesIdle
    \/ ComputeLaddersAny
    \/ Return

SpecLadders == Init /\ [][NextLadders]_vars

\* the dispatchers called directly with signatures of any length
\* the length of a Level0 signature: tag, p_seed and 26 chain values of 20 bytes
Level0SignatureLen ==
    1 + SEED_SIZE + ParamsNew("Level0", "Blake2bHasher", "Sha3_224Hasher").val.n
                    * ParamsNew("Level0", "Blake2bHasher", "Sha3_224Hasher").val.total

SignatureLens == {0, 1, SEED_SIZE, 1 + SEED_SIZE, Level0SignatureLen - 1,
                  Level0SignatureLen, Level0SignatureLen + 1}

SignatureTags == {0, 1, 4, 5, 255}

\* a signature of len bytes: the tag, then zeros
SignatureOfLen(tag, len) == Take(<<tag>> \o Zeros(len), len)

DispatchMsgs == {1, 3, 4}

Dispatched(op, m, signature, pk, res) ==
    [op |-> op, m |-> m, signature |-> signature, pk |-> pk, res |-> res]

\* security::verify(Msg(m), signature, public_key)
VerifyBytes(m, signature, pk) ==
    /\ out = Idle
    /\ out' = Dispatched("verify", m, signature, pk,
                         verify(Msg(m), signature, PublicKeyArg(pk)))
    /\ UNCHANGED <<params, key, sig>>

\* security::verify_no_consensus(Msg(m), signature, public_key)
VerifyNoConsensusBytes(m, signature, pk) ==
    /\ out = Idle
    /\ out' = Dispatched("verify_no_consensus", m, signature, pk,
                         verify_no_consensus(Msg(m), signature, PublicKeyArg(pk)))
    /\ UNCHANGED <<params, key, sig>>

VerifyBytesAny ==
    \E m \in DispatchMsgs, tag \in SignatureTags, len \in SignatureLens,
       pk \in {"other", "short"} :
        VerifyBytes(m, SignatureOfLen(tag, len), pk)

VerifyNoConsensusBytesAny ==
    \E m \in DispatchMsgs, tag \in SignatureTags, len \in SignatureLens,
       pk \in {"other", "short"} :
        VerifyNoConsensusBytes(m, SignatureOfLen(tag, len), pk)

NextDispatch ==
    \/ VerifyBytesAny
    \/ VerifyNoConsensusBytesAny
    \/ Return

SpecDispatch == Init /\ [][NextDispatch]_vars

\* =============================================================== properties
\* C1: Params::verify, given the message a signature was made for, that
\* signature without its first byte and the public key of the key that signed,
\* returns Ok, for every key of every Params a constructor returned and every
\* signature sign returned (before or after generate, after earlier sign calls)
C1_ParamsRoundTrip ==
    (out.op = "params_verify" /\ out.m = sig.m /\ out.pk = "own")
        => out.res.err = "Ok"

\* a signature of the 254-byte message made on the fast path with chain points
\* of at least one byte is verified and accepted
C1_Witness ==
    /\ out.op = "params_verify" /\ out.m = sig.m /\ out.pk = "own"
    /\ out.res.err = "Ok"
    /\ sig.fast
    /\ key.params.n >= 1
    /\ Len(Msg(sig.m)) = MAX_MSG_SIZE

\* C2: for a key of one of the five presets built with the hash pair the
\* dispatcher uses, security::verify of a message, the signature sign returned
\* for it and the key's public key returns Ok, whether or not generate was
\* called before signing
C2_DispatcherRoundTrip ==
    (/\ out.op = "verify"
     /\ key.params.encoding # "Custom"
     /\ out.m = sig.m /\ out.tag = OwnTag /\ out.pk = "own")
        => out.res.err = "Ok"

\* the dispatcher accepts a Consensus signature made on the fast path
C2_Witness ==
    /\ out.op = "verify"
    /\ key.params.encoding = "Consensus"
    /\ out.m = sig.m /\ out.tag = OwnTag /\ out.pk = "own"
    /\ sig.fast
    /\ out.res.err = "Ok"

\* C3: sign on the fast path (after generate) returns byte for byte the
\* signature that sign on the slow path (before generate) returned for the same
\* key and message
C3_FastEqualsSlow ==
    (/\ out.op = "sign" /\ out.res.err = "Ok" /\ out.fast
     /\ sig.held /\ ~sig.fast /\ sig.m = out.m)
        => out.res.val = sig.bytes

\* the two paths were compared on a message whose step vector holds both a 0
\* and a 255, with chain points of at least one byte
C3_Witness ==
    /\ out.op = "sign" /\ out.res.err = "Ok" /\ out.fast
    /\ sig.held /\ ~sig.fast /\ sig.m = out.m
    /\ out.res.val = sig.bytes
    /\ key.params.n >= 1
    /\ LET Both(d) == /\ \E i \in 1..Len(d) : d[i] = 0
                      /\ \E i \in 1..Len(d) : d[i] = W - 1
       IN  Both(msg_hash_and_compute_checksum(key.params, Msg(out.m)))

\* C4: every signature sign returns starts with the u8 of the encoding of the
\* key's Params, continues with the key's p_seed in bytes 1..33 and is
\* 1 + 32 + n * total bytes long
C4_Envelope ==
    (out.op = "sign" /\ out.res.err = "Ok") =>
        /\ out.res.val[1] = CASE key.params.encoding = "Level0" -> 0
                               [] key.params.encoding = "Level1" -> 1
                               [] key.params.encoding = "Level2" -> 2
                               [] key.params.encoding = "Level3" -> 3
                               [] key.params.encoding = "Consensus" -> 4
                               [] key.params.encoding = "Custom" -> 5
        /\ Slice(out.res.val, 1, 1 + SEED_SIZE) = key.p_seed
        /\ Len(out.res.val) = 1 + SEED_SIZE + key.params.n * key.params.total

\* a Level3 key signed on the fast path: 865 bytes starting with 3
C4_Witness ==
    /\ out.op = "sign" /\ out.res.err = "Ok" /\ out.fast
    /\ key.params.encoding = "Level3"
    /\ out.res.val[1] = 3
    /\ Len(out.res.val) = 1 + SEED_SIZE + 32 * 26

\* C5: sign returns InvalidMessageSize for a message longer than 254 bytes and
\* succeeds for every other message, with or without precomputed chains
C5_MessageSize ==
    out.op = "sign" =>
        IF Len(Msg(out.m)) > MAX_MSG_SIZE
        THEN out.res.err = "InvalidMessageSize"
        ELSE out.res.err = "Ok"

\* a key with precomputed chains refused the 255-byte message
C5_Witness ==
    /\ out.op = "sign" /\ out.fast
    /\ Len(Msg(out.m)) = MAX_MSG_SIZE + 1
    /\ out.res.err = "InvalidMessageSize"

\* C6: when generate has run compute_ladders in Generate mode, the aggregator
\* result of that run equals the result of ComputePublicKey mode on the same
\* p_seed and secret key, which is the public key stored at construction
C6_GenerateAggregate ==
    (out.op = "generate" /\ ~out.fast /\ out.res.err = "Ok") =>
        LET Same(generated, computed) ==
                /\ generated.err = "Ok" /\ computed.err = "Ok"
                /\ Len(generated.val.result) = PK_SIZE
                /\ generated.val.result = computed.val.result
                /\ generated.val.result = key.public_key
        IN  Same(compute_ladders(key.params, key.p_seed, None, key.secret_key,
                                 "Generate"),
                 compute_ladders(key.params, key.p_seed, None, key.secret_key,
                                 "ComputePublicKey"))

\* generate has filled the chains of a key with chain points of two bytes, one
\* of them of odd parity
C6_Witness ==
    /\ out.op = "generate" /\ ~out.fast /\ out.res.err = "Ok"
    /\ key.chains.some
    /\ key.params.n = 2
    /\ \E i \in 0..(key.params.total - 1) :
           parity(Slice(key.chains.rows[W], i * 2, (i + 1) * 2))

\* C7: both dispatchers return InvalidParamsEncodingType for a signature whose
\* first byte is 5 or more, and verify_no_consensus also when it is 4, whatever
\* the message, the rest of the signature and the public key
C7_TagGating ==
    /\ (out.op \in {"verify", "verify_no_consensus"} /\ out.tag >= 5)
           => out.res.err = "InvalidParamsEncodingType"
    /\ (out.op = "verify_no_consensus" /\ out.tag = 4)
           => out.res.err = "InvalidParamsEncodingType"

\* verify_no_consensus refused a Consensus signature that verify accepts
C7_Witness ==
    /\ out.op = "verify_no_consensus"
    /\ key.params.encoding = "Consensus"
    /\ out.m = sig.m /\ out.tag = 4 /\ OwnTag = 4 /\ out.pk = "own"
    /\ out.res.err = "InvalidParamsEncodingType"
    /\ verify(Msg(sig.m), sig.bytes, key.public_key).err = "Ok"

\* C8 as stated: the first byte of a signature sign returns is in 0..4
C8_TagNeverCustom ==
    (out.op = "sign" /\ out.res.err = "Ok") => out.res.val[1] \in 0..4

\* C8: the first byte of a signature sign returns is in 0..4 for a key whose
\* Params came from Params::new, and 5 for a key whose Params came from
\* Params::new_from_values
C8_TagOfConstructor ==
    (out.op = "sign" /\ out.res.err = "Ok") =>
        /\ params.op = "new" => out.res.val[1] \in 0..4
        /\ params.op = "new_from_values" => out.res.val[1] = 5

\* a key of Params from new_from_values signed, and the signature starts with 5
C8_Witness ==
    /\ out.op = "sign" /\ out.res.err = "Ok"
    /\ params.op = "new_from_values"
    /\ out.res.val[1] = 5

\* C9 as stated: every Params a constructor returns has 1 <= n <= PRFH.size()
C9_NAtLeastOne ==
    params.res.err = "Ok" =>
        /\ 1 <= params.res.val.n
        /\ params.res.val.n <= HasherSize(params.PRFH)

\* C10: new(Custom) fails with CustomNotSupported; new_from_values(n, m) fails
\* with InvalidMValue when m is outside 1..254, otherwise with InvalidHasher
\* when a hash is narrower than n or m, otherwise returns (n, m) with encoding
\* Custom; new(preset) builds (20,24), (24,24), (28,24), (32,24), (32,32) for
\* Level0..3 and Consensus under the same hash validation; total is m + 1 when
\* m = 1 and m + 2 otherwise
C10_Construction ==
    LET r == params.res
        narrow(n, m) == HasherSize(params.PRFH) < n \/ HasherSize(params.MSGH) < m
        table == [Level0 |-> <<20, 24>>, Level1 |-> <<24, 24>>,
                  Level2 |-> <<28, 24>>, Level3 |-> <<32, 24>>,
                  Consensus |-> <<32, 32>>]
    IN  /\ (params.op = "new" /\ params.encoding = "Custom")
               => r.err = "CustomNotSupported"
        /\ params.op = "new_from_values" =>
               IF ~(params.m \in 1..254) THEN r.err = "InvalidMValue"
               ELSE IF narrow(params.n, params.m) THEN r.err = "InvalidHasher"
               ELSE /\ r.err = "Ok"
                    /\ r.val.encoding = "Custom"
                    /\ r.val.n = params.n /\ r.val.m = params.m
        /\ (params.op = "new" /\ params.encoding # "Custom") =>
               IF narrow(table[params.encoding][1], table[params.encoding][2])
               THEN r.err = "InvalidHasher"
               ELSE /\ r.err = "Ok"
                    /\ r.val.encoding = params.encoding
                    /\ <<r.val.n, r.val.m>> = table[params.encoding]
        /\ r.err = "Ok" =>
               r.val.total = IF r.val.m = 1 THEN r.val.m + 1 ELSE r.val.m + 2

\* new_from_values was given an m above 254 together with an n wider than the
\* PRF hash, and answered InvalidMValue
C10_Witness ==
    /\ params.op = "new_from_values"
    /\ params.m > MAX_MSG_SIZE
    /\ HasherSize(params.PRFH) < params.n
    /\ params.res.err = "InvalidMValue"

\* C11: for every byte string hashed of 1..254 bytes, checksum(hashed) is one
\* byte when the length is 1 and two bytes otherwise, the sum of the bytes of
\* hashed plus the big-endian value of the checksum bytes is 255 * length, and
\* every value `sum` takes (the product and each difference) is in 0..65535
C11_ChecksumIdentity ==
    (out.op = "checksum" /\ Len(out.hashed) \in 1..MAX_MSG_SIZE) =>
        LET m == Len(out.hashed)
            InU16(sums) == \A k \in 1..Len(sums) : sums[k] \in 0..65535
            Identity(c, bytes_sum) ==
                /\ Len(c) = IF m = 1 THEN 1 ELSE 2
                /\ \A k \in 1..Len(c) : c[k] \in Byte
                /\ bytes_sum + (IF m = 1 THEN c[1] ELSE 256 * c[1] + c[2]) = 255 * m
        IN  /\ out.res.err = "Ok"
            /\ Identity(out.res.val,
                        BagCardinality([k \in 1..m |-> out.hashed[k] + 1]) - m)
            /\ InU16(<<255 * m>> \o ChecksumSums(255 * m, out.hashed, 1, m))

\* the checksum of 254 bytes 255 was taken: sum goes from 64770 down to 0
C11_Witness ==
    /\ out.op = "checksum"
    /\ out.hashed = Repeat(255, MAX_MSG_SIZE)
    /\ out.res.val = <<0, 0>>

\* C12 as stated: compute_ladders with a p_seed of other than 32 bytes returns
\* InvalidSeedSize; otherwise with fewer than n * total bytes of points
\* InvalidPointsSize; otherwise Sign without a message MustProvideMessage,
\* Verify without a message ExpectedMessage, Generate or ComputePublicKey with a
\* message NoMessageExpected, and Ok in the four matching combinations
C12_ModeMessage ==
    out.op = "compute_ladders" =>
        out.res.err =
            IF Len(out.p_seed) # 32 THEN "InvalidSeedSize"
            ELSE IF Len(out.points) < out.params.n * out.params.total
                 THEN "InvalidPointsSize"
            ELSE IF out.mode = "Sign" /\ out.m = 0 THEN "MustProvideMessage"
            ELSE IF out.mode = "Verify" /\ out.m = 0 THEN "ExpectedMessage"
            ELSE IF out.mode \in {"Generate", "ComputePublicKey"} /\ out.m # 0
                 THEN "NoMessageExpected"
            ELSE "Ok"

\* C13: after generate has filled chains, chains has 256 rows of n * total
\* bytes, row 0 is the secret key, for every chain i and every k in 1..255
\* bytes i*n..(i+1)*n of row k are the first n bytes of
\* PRFH(p_seed || byte(k) || (the same bytes of row k - 1 XOR mask k - 1)), and
\* aggregating the chain values of row 255 gives the public key
C13_ChainTable ==
    (out.op = "generate" /\ ~out.fast /\ out.res.err = "Ok") =>
        LET P == key.params
            Seg(row, i) == Slice(row, i * P.n, (i + 1) * P.n)
            Step(k, prev, mask) ==
                Take(HasherSum(HasherWrite(HasherNew(P.prf_hash),
                         key.p_seed \o <<k>>
                             \o [x \in 1..P.n |-> Xor(prev[x], mask[x])])), P.n)
            Table(rows, masks) ==
                /\ Len(rows) = W
                /\ \A r \in 1..W : Len(rows[r]) = P.n * P.total
                /\ rows[1] = key.secret_key
                /\ \A i \in 0..(P.total - 1), k \in 1..(W - 1) :
                       Seg(rows[k + 1], i) = Step(k, Seg(rows[k], i), masks[k])
                /\ Aggregate(P, key.p_seed,
                             [i \in 1..P.total |-> [value |-> Seg(rows[W], i - 1)]],
                             "ComputePublicKey", rows[W]) = key.public_key
        IN  /\ key.chains.some
            /\ Table(key.chains.rows,
                     compute_random_elements(P.prf_hash, P.n, key.p_seed))

\* generate has filled the chains of a key of four chains of two bytes, and the
\* last row differs from the secret key
C13_Witness ==
    /\ out.op = "generate" /\ ~out.fast /\ out.res.err = "Ok"
    /\ key.params.n = 2 /\ key.params.total = 4
    /\ key.chains.rows[1] = key.secret_key
    /\ key.chains.rows[W] # key.secret_key

\* C14: once a key is constructed, no step changes its seed, p_seed, secret_key
\* or public_key; a sign call, whatever it returns, changes no field of the
\* key; a generate call changes no field but chains, and chains only when it
\* was absent; with chains present generate returns Ok and leaves the key as
\* it is; chains, once present, stays present and unchanged
C14_KeyFrame ==
    [][key.built =>
        /\ key'.built
        /\ key'.seed = key.seed
        /\ key'.p_seed = key.p_seed
        /\ key'.secret_key = key.secret_key
        /\ key'.public_key = key.public_key
        /\ key.chains.some => key'.chains = key.chains
        /\ (out = Idle /\ out'.op = "sign") => key' = key
        /\ (out = Idle /\ out'.op = "generate") =>
               /\ [key' EXCEPT !.chains = key.chains] = key
               /\ key.chains.some => (out'.res.err = "Ok" /\ key' = key)
      ]_vars

\* generate was called on a key that had chains, after a signature was made
\* with them, and returned Ok
C14_Witness ==
    /\ out.op = "generate" /\ out.fast /\ out.res.err = "Ok"
    /\ key.chains.some
    /\ sig.held /\ sig.fast

\* C15: in Generate, Verify and ComputePublicKey mode compute_ladders returns
\* the 32 bytes SHA3-256(p_seed || tweak || outputs), where outputs is the
\* chain end values one after the other in chain order and tweak is SHA3-256
\* of those end values, in chain order, that have an odd number of one bits;
\* in Sign mode it returns outputs itself, n * total bytes
C15_ParityGatedAggregate ==
    (out.op = "compute_ladders" /\ out.res.err = "Ok") =>
        LET P == out.params
            Sha3(data) == Bytes(HasherSum(HasherWrite(HasherNew("Sha3_256Hasher"), data)))
            Ones(b) == (b % 2) + ((b \div 2) % 2) + ((b \div 4) % 2)
                       + ((b \div 8) % 2) + ((b \div 16) % 2) + ((b \div 32) % 2)
                       + ((b \div 64) % 2) + ((b \div 128) % 2)
            OddOnes(value) ==
                (BagCardinality([k \in 1..Len(value) |-> Ones(value[k]) + 1])
                     - Len(value)) % 2 = 1
            Flat(values) ==
                [k \in 1..(P.n * Len(values)) |->
                    values[((k - 1) \div P.n) + 1][((k - 1) % P.n) + 1]]
            Expected(ends) ==
                IF out.mode = "Sign"
                THEN /\ out.res.val.result = Flat(ends)
                     /\ Len(out.res.val.result) = P.n * P.total
                ELSE /\ out.res.val.result
                          = Sha3(out.p_seed \o Sha3(Flat(SelectSeq(ends, OddOnes)))
                                     \o Flat(ends))
                     /\ Len(out.res.val.result) = 32
            Ends(start, masks, seeded) ==
                Expected(Bytes([i \in 1..P.total |->
                    Ladder(P, seeded, out.points, out.mode, start, masks,
                           i - 1).value]))
        IN  Ends(IF out.m # 0 THEN msg_hash_and_compute_checksum(P, Msg(out.m))
                 ELSE Zeros(P.total),
                 compute_random_elements(P.prf_hash, P.n, out.p_seed),
                 HasherWrite(HasherNew(P.prf_hash), out.p_seed))

\* compute_ladders aggregated, in Generate mode, four chains of two bytes of
\* which some end with an odd and some with an even number of one bits
C15_Witness ==
    /\ out.op = "compute_ladders" /\ out.res.err = "Ok"
    /\ out.mode = "Generate"
    /\ out.params.n = 2 /\ out.params.total = 4
    /\ Len(out.res.val.result) = 32
    /\ \E i, j \in 0..3 :
           /\ parity(Slice(out.res.val.chains[W], 2 * i, 2 * i + 2))
           /\ ~parity(Slice(out.res.val.chains[W], 2 * j, 2 * j + 2))

\* C16 as stated: verify and verify_no_consensus return, Ok or a WotsError, and
\* do not abort, whatever the signature bytes, the empty signature and
\* signatures shorter than 1 + 32 + n * total included
C16_DispatchersReturn ==
    out.op \in {"verify", "verify_no_consensus"} =>
        out.res.err \in {"Ok", "InvalidParamsEncodingType", "InvalidPublicKeySize",
                         "InvalidSignatureSize", "InvalidSignature",
                         "InvalidSeedSize", "InvalidPointsSize",
                         "MustProvideMessage", "NoMessageExpected",
                         "ExpectedMessage"}

\* C17 as stated: compute_ladders in Generate mode, given a 32-byte p_seed, no
\* message and more than n * total bytes of points, returns Ok, with row 0 of
\* chains the first n * total bytes of points and the aggregator result that
\* ComputePublicKey mode gives on the same inputs
C17_GenerateLongPoints ==
    (/\ out.op = "compute_ladders" /\ out.mode = "Generate" /\ out.m = 0
     /\ Len(out.p_seed) = SEED_SIZE
     /\ Len(out.points) > out.params.n * out.params.total) =>
        /\ out.res.err = "Ok"
        /\ out.res.val.chains[1] = Take(out.points, out.params.n * out.params.total)
        /\ out.res.val.result
               = compute_ladders(out.params, out.p_seed, None, out.points,
                                 "ComputePublicKey").val.result

\* C18: for two different byte strings h and h' of the same length in 1..254,
\* with step vectors d = h || checksum(h) and d' = h' || checksum(h'), some
\* position i has d'[i] < d[i]: no step vector is at least another one at every
\* position
C18_AntiDomination ==
    (/\ sig.held /\ out.op = "checksum"
     /\ Len(out.hashed) \in 1..MAX_MSG_SIZE
     /\ Len(sig.hashed) = Len(out.hashed)
     /\ sig.hashed # out.hashed) =>
        LET Smaller(d, e) ==
                /\ Len(e) = Len(d)
                /\ \E i \in 1..Len(d) : e[i] < d[i]
        IN  Smaller(sig.bytes, out.hashed \o out.res.val)

\* the step vector of 254 bytes 1, 2, 3, ... is kept and the checksum of 254
\* bytes 255 is taken: no byte of the second string is below the first, and
\* the checksum bytes are
C18_Witness ==
    /\ sig.held /\ out.op = "checksum"
    /\ sig.hashed = HashedBytes(MAX_MSG_SIZE, 1, 1)
    /\ out.hashed = Repeat(255, MAX_MSG_SIZE)
    /\ \A i \in 1..MAX_MSG_SIZE : out.hashed[i] >= sig.hashed[i]
    /\ \E i \in 1..2 : out.res.val[i] < sig.bytes[MAX_MSG_SIZE + i]

\* C19: for every Params a constructor returned, from_seed and generate return
\* Ok, sign returns Ok or InvalidMessageSize and nothing else (none of
\* ChainsNotSet, InvalidSeedSize, InvalidPointsSize, MustProvideMessage,
\* NoMessageExpected, ExpectedMessage, and no abort), in every state reached by
\* generate and sign calls; sign on a key without chains succeeds for a message
\* of at most 254 bytes
C19_KeyErrors ==
    /\ out.op \in {"from_seed", "generate"} => out.res.err = "Ok"
    /\ out.op = "sign" => out.res.err \in {"Ok", "InvalidMessageSize"}
    /\ out.op \in {"from_seed", "generate", "sign"} =>
           out.res.err \notin {"ChainsNotSet", "InvalidSeedSize", "InvalidPointsSize",
                               "MustProvideMessage", "NoMessageExpected",
                               "ExpectedMessage", "Panic"}
    /\ (out.op = "sign" /\ ~out.fast /\ Len(Msg(out.m)) <= MAX_MSG_SIZE) =>
           out.res.err = "Ok"

\* a key with chain points of at least one byte and no chains signed the
\* 254-byte message on the slow path, after an earlier signature
C19_Witness ==
    /\ out.op = "sign" /\ ~out.fast /\ out.res.err = "Ok"
    /\ ~key.chains.some
    /\ key.params.n >= 1
    /\ Len(Msg(out.m)) = MAX_MSG_SIZE
    /\ sig.held

\* C20: in every call of compute_ladders that runs its loop, in every mode, m is
\* in 1..254 and total at most 256, the step vector has exactly total entries,
\* each a byte, every chain i has i in 0..255 and its points inside the points
\* given, every chain range has 0 <= begin <= end <= 255 and is walked in
\* end - begin steps, and every step j of it has the mask index j in 0..254 and
\* the row index and tweak byte j + 1 in 1..255, inside the 255 masks and the
\* 256 rows
C20_IndexBounds ==
    (out.op = "compute_ladders" /\ out.res.err = "Ok") =>
        LET P == out.params
            InRange(l, masks) ==
                /\ 0 <= l.begin /\ l.begin <= l.end /\ l.end <= 255
                /\ Len(l.trace) = l.end - l.begin
                /\ \A j \in l.begin..(l.end - 1) :
                       /\ j \in 0..254 /\ j + 1 <= Len(masks)
                       /\ j + 1 \in 1..255 /\ j + 1 < Len(out.res.val.chains)
            Bounds(start, masks, seeded) ==
                /\ P.m \in 1..MAX_MSG_SIZE /\ P.total <= 256
                /\ Len(start) = P.total
                /\ \A k \in 1..Len(start) : start[k] \in Byte
                /\ \A i \in 0..(P.total - 1) :
                       /\ i \in 0..255
                       /\ (i + 1) * P.n <= Len(out.points)
                       /\ InRange(Ladder(P, seeded, out.points, out.mode, start,
                                         masks, i), masks)
        IN  Bounds(IF out.m # 0 THEN msg_hash_and_compute_checksum(P, Msg(out.m))
                   ELSE Zeros(P.total),
                   compute_random_elements(P.prf_hash, P.n, out.p_seed),
                   HasherWrite(HasherNew(P.prf_hash), out.p_seed))

\* compute_ladders signed a message whose step vector holds a 255, so that one
\* chain was walked through all of the steps 0..254
C20_Witness ==
    /\ out.op = "compute_ladders" /\ out.res.err = "Ok"
    /\ out.mode = "Sign"
    /\ out.params.n >= 1
    /\ \E i \in 1..out.params.total :
           msg_hash_and_compute_checksum(out.params, Msg(out.m))[i] = W - 1

====
